---- MODULE Spec2Model ----
(***************************************************************************)
(* The Zenith token classifier (src/src/lexer.rs): the rule table of the   *)
(* `Token` enum, matched by the lexer that `#[derive(Logos)]` generates.   *)
(*                                                                         *)
(* A text is a sequence of code points; a code point is written as a       *)
(* one-character string, except the two-byte code point U+00E9, written    *)
(* "U+00E9".  The cursor `pos` counts code points; the spans of the items  *)
(* are byte offsets, as `Lexer::span()` reports them.                      *)
(*                                                                         *)
(* The syntax tree values of src/src/ast: Span, Identifier and Type, with  *)
(* the rendering of a Type.                                                *)
(***************************************************************************)
EXTENDS Integers, Sequences, FiniteSets, TLC

VARIABLES
    input,   \* the source text, borrowed by every lexer over it
    errEnd,  \* for each boundary of the input, where an error item starting there ends
    pos,     \* cursor of the lexer (code points consumed)
    trace,   \* items returned and whitespace runs skipped by the lexer, in order
    done,    \* the lexer has returned None
    pos2,    \* cursor of a second lexer over the same source
    trace2,  \* items and skipped runs of the second lexer
    done2,   \* the second lexer has returned None
    value,   \* the syntax tree value under construction
    result   \* what the last operation on the value returned

lexer == <<input, errEnd, pos, trace, done>>

lexer2 == <<pos2, trace2, done2>>

ast == <<value, result>>

vars == <<input, errEnd, pos, trace, done, pos2, trace2, done2, value, result>>

(***************************************************************************)
(* Code points and byte offsets                                            *)
(***************************************************************************)
\* Bytes of the UTF-8 encoding of a code point of the model's alphabets.
Utf8Len(c) == IF c = "U+00E9" THEN 2 ELSE 1

RECURSIVE Off(_, _)
\* Byte offset of the code point boundary i (0 .. Len(s)) of the text s.
Off(s, i) == IF i = 0 THEN 0 ELSE Off(s, i - 1) + Utf8Len(s[i])

\* The n code points of s that follow boundary p.
Sub(s, p, n) == [i \in 1..n |-> s[p + i]]

IsPrefixAt(w, s, p) ==
    /\ p + Len(w) <= Len(s)
    /\ \A i \in 1..Len(w) : s[p + i] = w[i]

(***************************************************************************)
(* Character classes of the rules                                          *)
(***************************************************************************)
Digit == {"0", "1", "2", "3", "4", "5", "6", "7", "8", "9"}

Lower == {"a", "b", "c", "d", "e", "f", "g", "h", "i", "j", "k", "l", "m",
          "n", "o", "p", "q", "r", "s", "t", "u", "v", "w", "x", "y", "z"}

Upper == {"A", "B", "C", "D", "E", "F", "G", "H", "I", "J", "K", "L", "M",
          "N", "O", "P", "Q", "R", "S", "T", "U", "V", "W", "X", "Y", "Z"}

\* [a-zA-Z_]
IdentStart == Lower \cup Upper \cup {"_"}

\* [a-zA-Z0-9_]
IdentChar == IdentStart \cup Digit

\* #[logos(skip r"[ \t\n\f]+")]
\* A skip rule that also takes the carriage return.
SkipCharWithCR == {" ", "\t", "\n", "\f", "\r"}

SkipChar == {" ", "\t", "\n", "\f"}

(***************************************************************************)
(* The #[token("...")] rules: variant |-> its exact text                   *)
(***************************************************************************)
Keywords ==
    [ Var    |-> <<"v", "a", "r">>,
      Mut    |-> <<"m", "u", "t">>,
      Fn     |-> <<"f", "n">>,
      Const  |-> <<"c", "o", "n", "s", "t">>,
      Struct |-> <<"s", "t", "r", "u", "c", "t">>,
      Enum   |-> <<"e", "n", "u", "m">>,
      Union  |-> <<"u", "n", "i", "o", "n">>,
      If     |-> <<"i", "f">>,
      Else   |-> <<"e", "l", "s", "e">>,
      While  |-> <<"w", "h", "i", "l", "e">>,
      For    |-> <<"f", "o", "r">>,
      Loop   |-> <<"l", "o", "o", "p">>,
      Match  |-> <<"m", "a", "t", "c", "h">>,
      Mod    |-> <<"m", "o", "d">>,
      Return |-> <<"r", "e", "t", "u", "r", "n">>,
      Panic  |-> <<"p", "a", "n", "i", "c">> ]

BuiltinTypes ==
    [ I8    |-> <<"i", "8">>,
      I16   |-> <<"i", "1", "6">>,
      I32   |-> <<"i", "3", "2">>,
      I64   |-> <<"i", "6", "4">>,
      I128  |-> <<"i", "1", "2", "8">>,
      U8    |-> <<"u", "8">>,
      U16   |-> <<"u", "1", "6">>,
      U32   |-> <<"u", "3", "2">>,
      U64   |-> <<"u", "6", "4">>,
      U128  |-> <<"u", "1", "2", "8">>,
      F32   |-> <<"f", "3", "2">>,
      F64   |-> <<"f", "6", "4">>,
      Isize |-> <<"i", "s", "i", "z", "e">>,
      Usize |-> <<"u", "s", "i", "z", "e">>,
      Bool  |-> <<"b", "o", "o", "l">>,
      Char  |-> <<"c", "h", "a", "r">>,
      Str   |-> <<"s", "t", "r">> ]

BoolLiterals ==
    [ True  |-> <<"t", "r", "u", "e">>,
      False |-> <<"f", "a", "l", "s", "e">> ]

Operators ==
    [ Plus    |-> <<"+">>,
      Minus   |-> <<"-">>,
      Star    |-> <<"*">>,
      Slash   |-> <<"/">>,
      Percent |-> <<"%">>,
      Assign  |-> <<"=">>,
      Eq      |-> <<"=", "=">>,
      NotEq   |-> <<"!", "=">>,
      Lt      |-> <<"<">>,
      LtEq    |-> <<"<", "=">>,
      Gt      |-> <<">">>,
      GtEq    |-> <<">", "=">>,
      And     |-> <<"&", "&">>,
      Or      |-> <<"|", "|">>,
      Not     |-> <<"!">>,
      BitAnd  |-> <<"&">>,
      BitOr   |-> <<"|">>,
      BitXor  |-> <<"^">>,
      BitNot  |-> <<"~">>,
      Shl     |-> <<"<", "<">>,
      Shr     |-> <<">", ">">> ]

Delimiters ==
    [ LParen      |-> <<"(">>,
      RParen      |-> <<")">>,
      LBrace      |-> <<"{">>,
      RBrace      |-> <<"}">>,
      LBracket    |-> <<"[">>,
      RBracket    |-> <<"]">>,
      Semicolon   |-> <<";">>,
      Colon       |-> <<":">>,
      Comma       |-> <<",">>,
      Dot         |-> <<".">>,
      Arrow       |-> <<"-", ">">>,
      MacroInvoke |-> <<"@">> ]

ReservedKinds == DOMAIN Keywords \cup DOMAIN BuiltinTypes \cup DOMAIN BoolLiterals

TokenKinds == ReservedKinds \cup DOMAIN Operators \cup DOMAIN Delimiters

\* All the #[token] rules.
TokenRules == Keywords @@ BuiltinTypes @@ BoolLiterals @@ Operators @@ Delimiters

\* The text of a #[token] rule.
TokenText(k) == TokenRules[k]

(***************************************************************************)
(* The #[regex("...")] rules: whether the whole word w is in the language  *)
(***************************************************************************)
\* [0-9]+
IsIntegerLiteral(w) ==
    /\ Len(w) >= 1
    /\ \A i \in 1..Len(w) : w[i] \in Digit

\* [0-9]+\.[0-9]* : the digits after the dot are optional.
IsFloatTrailingDot(w) ==
    \E k \in 2..Len(w) :
        /\ w[k] = "."
        /\ \A i \in 1..(k - 1) : w[i] \in Digit
        /\ \A i \in (k + 1)..Len(w) : w[i] \in Digit

\* [0-9]+\.[0-9]+
IsFloatLiteral(w) ==
    \E k \in 2..(Len(w) - 1) :
        /\ w[k] = "."
        /\ \A i \in 1..(k - 1) : w[i] \in Digit
        /\ \A i \in (k + 1)..Len(w) : w[i] \in Digit

\* "([^"\\]|\\.)*" : a backslash escapes the code point after it.
RECURSIVE EscapedBody(_, _, _)
EscapedBody(w, i, j) ==
    IF i > j THEN TRUE
    ELSE IF w[i] = "\"" THEN FALSE
    ELSE IF w[i] = "\\" THEN i + 1 <= j /\ EscapedBody(w, i + 2, j)
    ELSE EscapedBody(w, i + 1, j)

IsStringLiteralEscaped(w) ==
    /\ Len(w) >= 2
    /\ w[1] = "\""
    /\ w[Len(w)] = "\""
    /\ EscapedBody(w, 2, Len(w) - 1)

\* "[^"]*"
IsStringLiteral(w) ==
    /\ Len(w) >= 2
    /\ w[1] = "\""
    /\ w[Len(w)] = "\""
    /\ \A i \in 2..(Len(w) - 1) : w[i] # "\""

\* '([^'\\]|\\.)' : a backslash and the code point after it count as one.
IsCharLiteralEscaped(w) ==
    /\ Len(w) \in 3..4
    /\ w[1] = "'"
    /\ w[Len(w)] = "'"
    /\ Len(w) = 3 => w[2] \notin {"'", "\\"}
    /\ Len(w) = 4 => w[2] = "\\"

\* '[^']'
IsCharLiteral(w) ==
    /\ Len(w) = 3
    /\ w[1] = "'"
    /\ w[2] # "'"
    /\ w[3] = "'"

\* [a-zA-Z_][a-zA-Z0-9_]*
IsIdentifier(w) ==
    /\ Len(w) >= 1
    /\ w[1] \in IdentStart
    /\ \A i \in 2..Len(w) : w[i] \in IdentChar

\* //[^\n]*\n? : the comment takes the newline that ends it.
IsSingleLineCommentWithNewline(w) ==
    /\ Len(w) >= 2
    /\ w[1] = "/"
    /\ w[2] = "/"
    /\ \A i \in 3..(Len(w) - 1) : w[i] # "\n"

\* //[^\n]*
IsSingleLineComment(w) ==
    /\ Len(w) >= 2
    /\ w[1] = "/"
    /\ w[2] = "/"
    /\ \A i \in 3..Len(w) : w[i] # "\n"

RECURSIVE CommentBody(_, _, _)
\* ([^*]|\*[^/])* : whether w[i..j] is a sequence of the two alternatives,
\* a code point other than '*', or '*' followed by a code point other than '/'.
CommentBody(w, i, j) ==
    IF i > j THEN TRUE
    ELSE IF w[i] # "*" THEN CommentBody(w, i + 1, j)
    ELSE /\ i + 1 <= j
         /\ w[i + 1] # "/"
         /\ CommentBody(w, i + 2, j)

\* /\*([^*]|\*[^/])*\*/
IsMultiLineComment(w) ==
    /\ Len(w) >= 4
    /\ w[1] = "/"
    /\ w[2] = "*"
    /\ w[Len(w) - 1] = "*"
    /\ w[Len(w)] = "/"
    /\ CommentBody(w, 3, Len(w) - 2)

\* #\[.*\] : the attribute runs to any later ']', not to the first one.
IsAttributeGreedy(w) ==
    /\ Len(w) >= 3
    /\ w[1] = "#"
    /\ w[2] = "["
    /\ w[Len(w)] = "]"

\* #\[[^\]]*\]
IsAttribute(w) ==
    /\ Len(w) >= 3
    /\ w[1] = "#"
    /\ w[2] = "["
    /\ w[Len(w)] = "]"
    /\ \A i \in 3..(Len(w) - 1) : w[i] # "]"

RegexKinds == {"IntegerLiteral", "FloatLiteral", "StringLiteral", "CharLiteral",
               "Identifier", "SingleLineComment", "MultiLineComment", "Attribute"}

RegexMatches(k, w) ==
    CASE k = "IntegerLiteral"    -> IsIntegerLiteral(w)
      [] k = "FloatLiteral"      -> IsFloatLiteral(w)
      [] k = "StringLiteral"     -> IsStringLiteral(w)
      [] k = "CharLiteral"       -> IsCharLiteral(w)
      [] k = "Identifier"        -> IsIdentifier(w)
      [] k = "SingleLineComment" -> IsSingleLineComment(w)
      [] k = "MultiLineComment"  -> IsMultiLineComment(w)
      [] k = "Attribute"         -> IsAttribute(w)

Kinds == TokenKinds \cup RegexKinds

\* Whether the rule of variant k matches exactly the word w.
Matches(k, w) ==
    IF k \in TokenKinds THEN w = TokenText(k) ELSE RegexMatches(k, w)

(***************************************************************************)
(* Disambiguation: the longest match wins, the rule priority breaks ties   *)
(***************************************************************************)
\* Priority of a regex rule: 2 for each literal code point and each character
\* class outside a repetition, 0 for a repetition.
RegexPriority ==
    [ IntegerLiteral    |-> 2,
      FloatLiteral      |-> 6,
      StringLiteral     |-> 4,
      CharLiteral       |-> 6,
      Identifier        |-> 2,
      SingleLineComment |-> 4,
      MultiLineComment  |-> 8,
      Attribute         |-> 6 ]

\* Priority of a rule: a #[token] counts 2 for each code point of its text.
Priority(k) ==
    IF k \in TokenKinds THEN 2 * Len(TokenText(k)) ELSE RegexPriority[k]

\* The matches <<variant, length>> of the rules at boundary p of s.
Candidates(s, p) ==
    {<<k, Len(TokenText(k))>> : k \in {t \in TokenKinds : IsPrefixAt(TokenText(t), s, p)}}
    \cup {c \in RegexKinds \X (1..(Len(s) - p)) : RegexMatches(c[1], Sub(s, p, c[2]))}

\* The rule priority decides before the length of the match.
BetterPriorityFirst(c, d) ==
    \/ Priority(c[1]) > Priority(d[1])
    \/ Priority(c[1]) = Priority(d[1]) /\ c[2] >= d[2]

\* The shortest match wins.
BetterShortest(c, d) ==
    \/ c[2] < d[2]
    \/ c[2] = d[2] /\ Priority(c[1]) >= Priority(d[1])

\* Among matches of one length the rule of the lowest priority wins.
BetterGeneric(c, d) ==
    \/ c[2] > d[2]
    \/ c[2] = d[2] /\ Priority(c[1]) <= Priority(d[1])

\* Match c is preferred to match d.
Better(c, d) ==
    \/ c[2] > d[2]
    \/ c[2] = d[2] /\ Priority(c[1]) >= Priority(d[1])

\* The match the lexer emits among the matches C (C is not empty).
Select(C) == CHOOSE c \in C : \A d \in C : Better(c, d)

(***************************************************************************)
(* Skipped whitespace                                                      *)
(***************************************************************************)
RECURSIVE SkipLen(_, _)
\* Length of the match of the skip pattern [ \t\n\f]+ at boundary p (0: none).
SkipLen(s, p) ==
    IF p < Len(s) /\ s[p + 1] \in SkipChar THEN 1 + SkipLen(s, p + 1) ELSE 0

\* A skip that does not restart the item: it keeps the whitespace before it.
SpanStartKeepsSkip(p, q) == p

\* Start of the item pulled at p after the skip ended at q: a skip restarts
\* the item at the end of the skipped run.
SpanStart(p, q) == q

(***************************************************************************)
(* Lexical errors                                                          *)
(***************************************************************************)
\* w is the beginning of a string literal that has not been closed.
StringOpen(w) ==
    /\ Len(w) >= 1
    /\ w[1] = "\""
    /\ \A i \in 2..Len(w) : w[i] # "\""

\* w is the beginning of a character literal that has not been closed.
CharOpen(w) ==
    /\ Len(w) \in 1..2
    /\ w[1] = "'"
    /\ Len(w) = 2 => w[2] # "'"

\* w is the beginning of an attribute that has not been closed.
AttributeOpen(w) ==
    /\ Len(w) >= 1
    /\ w[1] = "#"
    /\ Len(w) >= 2 => w[2] = "["
    /\ \A i \in 3..Len(w) : w[i] # "]"

\* The boundaries up to which some rule is still matching when no rule
\* matches at boundary p. Every other rule begins with a code point that is
\* a token by itself, so only these three rules can be left unfinished.
Scanned(s, p) ==
    {p + n : n \in {m \in 1..(Len(s) - p) :
        LET w == Sub(s, p, m) IN StringOpen(w) \/ CharOpen(w) \/ AttributeOpen(w)}}

\* An error item that consumes nothing.
ErrorEndsStuck(s, p) == {p}

\* The boundaries at which an error item that starts at p may end. The
\* generated lexer ends the item where its scan stopped, at a code point
\* boundary at least one code point after p; the rule table does not fix
\* that place, so each boundary up to the furthest one scanned is allowed.
ErrorEnds(s, p) == {p + 1} \cup Scanned(s, p)

\* The boundary at which an error item that starts at p may end (p + 1 where
\* a rule matches at p and no error item can start).
ErrorChoices(s, p) ==
    IF Candidates(s, p) = {} THEN ErrorEnds(s, p) ELSE {p + 1}

RECURSIVE ErrorPolicies(_, _)
\* The generated lexer is a function of the text: the ways to fix, for each
\* boundary 0 .. n-1 of s (entry p + 1 for boundary p), where an error item
\* that starts there ends.
ErrorPolicies(s, n) ==
    IF n = 0 THEN {<<>>}
    ELSE {Append(f, e) : f \in ErrorPolicies(s, n - 1), e \in ErrorChoices(s, n - 1)}

(***************************************************************************)
(* The lexer: one action per outcome of Lexer::next()                      *)
(***************************************************************************)
Item(kind, s, a, b) == [kind |-> kind, start |-> Off(s, a), end |-> Off(s, b)]

\* The trace with the whitespace run skipped at p, if there is one.
WithSkip(tr, s, p) ==
    IF SkipLen(s, p) > 0
    THEN Append(tr, Item("Skip", s, p, p + SkipLen(s, p)))
    ELSE tr

\* next() returns Some(Ok(token)): a lexer at boundary p with the trace tr
\* moves to boundary np with the trace ntr.
TokenStep(p, tr, np, ntr) ==
    LET q == p + SkipLen(input, p)
        C == Candidates(input, q)
    IN  /\ q < Len(input)
        /\ C # {}
        /\ LET c == Select(C)
           IN  /\ np = q + c[2]
               /\ ntr = Append(WithSkip(tr, input, p),
                               Item(c[1], input, SpanStart(p, q), q + c[2]))

\* next() returns Some(Err(())): the error item ends where the generated
\* lexer stops on this text at this boundary.
ErrorStep(p, tr, np, ntr) ==
    LET q == p + SkipLen(input, p)
    IN  /\ q < Len(input)
        /\ Candidates(input, q) = {}
        /\ np = errEnd[q + 1]
        /\ ntr = Append(WithSkip(tr, input, p),
                        Item("Error", input, SpanStart(p, q), errEnd[q + 1]))

\* next() returns None.
EndStep(p, tr, np, ntr) ==
    LET q == p + SkipLen(input, p)
    IN  /\ q = Len(input)
        /\ np = q
        /\ ntr = WithSkip(tr, input, p)

PullToken ==
    /\ TokenStep(pos, trace, pos', trace')
    /\ UNCHANGED <<input, errEnd, done, lexer2, ast>>

PullError ==
    /\ ErrorStep(pos, trace, pos', trace')
    /\ UNCHANGED <<input, errEnd, done, lexer2, ast>>

PullEnd ==
    /\ EndStep(pos, trace, pos', trace')
    /\ done' = TRUE
    /\ UNCHANGED <<input, errEnd, lexer2, ast>>

Next == PullToken \/ PullError \/ PullEnd

(***************************************************************************)
(* Inputs                                                                  *)
(***************************************************************************)
\* The texts of at most n code points over the alphabet S.
Texts(S, n) == UNION {[1..k -> S] : k \in 0..n}

\* Option: None, which is also the value of the variables that a
\* specification does not use, and Some(x).
None == <<>>

Some(x) == <<x>>

\* Token::lexer(source) for a source of T: the lexer starts at byte 0; the
\* place where the generated lexer ends each possible error item is fixed by
\* the text.
Start(T) ==
    /\ input \in T
    /\ errEnd \in ErrorPolicies(input, Len(input))
    /\ pos = 0
    /\ trace = <<>>
    /\ done = FALSE
    /\ pos2 = 0
    /\ trace2 = <<>>
    /\ done2 = FALSE
    /\ value = None
    /\ result = None

MaxLen == 4

Sigma == {"a", "7", " ", "\n", "$", "U+00E9", "\""}

Init == Start(Texts(Sigma, MaxLen))

Spec == Init /\ [][Next]_vars

(***************************************************************************)
(* Derived views of a run                                                  *)
(***************************************************************************)
\* The items next() has returned so far.
Items == SelectSeq(trace, LAMBDA it : it.kind # "Skip")

\* The code point boundary at byte offset b of the input.
Boundary(b) == CHOOSE i \in 0..Len(input) : Off(input, i) = b

(***************************************************************************)
(* C1, C8: coverage and the error policy, over texts with whitespace,      *)
(* tokens, unmatched code points and unclosed literals (Spec)              *)
(***************************************************************************)
\* The spans of tr are not empty, start at byte 0, each begins where the one
\* before it ends, and the last ends at byte `upto`.
Covers(tr, upto) ==
    /\ tr = <<>> => upto = 0
    /\ tr # <<>> => tr[1].start = 0 /\ tr[Len(tr)].end = upto
    /\ \A i \in 1..Len(tr) : tr[i].start < tr[i].end
    /\ \A i \in 1..(Len(tr) - 1) : tr[i].end = tr[i + 1].start

\* C1: at every point of a scan the spans of the emitted items and of the
\* skipped whitespace runs, in order, cover the input from byte 0 to the
\* cursor without gap or overlap, and when the lexer has reported the end of
\* the input they cover it up to its length in bytes.
C1_Coverage ==
    /\ Covers(trace, Off(input, pos))
    /\ done => Covers(trace, Off(input, Len(input)))

\* A finished scan that skipped whitespace, emitted a token and an error,
\* over a text holding a two-byte code point.
C1_Witness ==
    /\ done
    /\ \E i \in 1..Len(trace) : trace[i].kind = "Skip"
    /\ \E i \in 1..Len(trace) : trace[i].kind = "Error"
    /\ \E i \in 1..Len(trace) : trace[i].kind \in Kinds
    /\ \E i \in 1..Len(input) : input[i] = "U+00E9"

\* C8 as claimed: every error item covers exactly one code point, the scan
\* resuming right after it.
C8_ErrorSkipsOneCodePoint ==
    \A i \in 1..Len(trace) :
        trace[i].kind = "Error" =>
            Boundary(trace[i].end) = Boundary(trace[i].start) + 1

(***************************************************************************)
(* C2, C9: maximal munch and the numeric literals, over digits, the dot,   *)
(* the slash, a letter, '=' and the newline (SpecMunch)                    *)
(***************************************************************************)
MaxMunch == 4

SigmaMunch == {"3", ".", "/", "e", "=", "\n", "$"}

\* 3.14
TextFloat == <<"3", ".", "1", "4">>

\* //x
TextLineComment == <<"/", "/", "x">>

\* 42 3.14 "hello" 'c' true false
TextLiterals ==
    <<"4", "2", " ", "3", ".", "1", "4", " ",
      "\"", "h", "e", "l", "l", "o", "\"", " ", "'", "c", "'", " ",
      "t", "r", "u", "e", " ", "f", "a", "l", "s", "e">>

InitMunch ==
    Start(Texts(SigmaMunch, MaxMunch) \cup {TextFloat, TextLineComment, TextLiterals})

SpecMunch == InitMunch /\ [][Next]_vars

\* The kinds of the items returned so far, in order.
ItemKinds == [i \in 1..Len(Items) |-> Items[i].kind]

RECURSIVE DigitRun(_, _)
\* Number of consecutive ASCII digits of s after boundary p.
DigitRun(s, p) ==
    IF p < Len(s) /\ s[p + 1] \in Digit THEN 1 + DigitRun(s, p + 1) ELSE 0

\* The item expected at boundary a, where a digit follows: the whole run of d
\* digits, with a dot and a second run of digits when they follow it directly.
NumberAt(s, a) ==
    LET d == DigitRun(s, a)
        f == IF a + d < Len(s) /\ s[a + d + 1] = "." THEN DigitRun(s, a + d + 1) ELSE 0
    IN  IF f > 0
        THEN Item("FloatLiteral", s, a, a + d + 1 + f)
        ELSE Item("IntegerLiteral", s, a, a + d)

\* C9: an item that starts at a digit is the IntegerLiteral of the maximal run
\* of digits, or the FloatLiteral of that run, a dot and the maximal run of
\* digits after it when a digit follows the dot; a numeric literal starts at
\* a digit and holds only digits and at most one dot (no exponent); an item
\* that starts at a dot is Dot alone; and the sample text yields
\* IntegerLiteral, FloatLiteral, StringLiteral, CharLiteral, True, False.
C9_Literals ==
    /\ \A i \in 1..Len(Items) :
           LET it == Items[i]
               a == Boundary(it.start)
           IN  /\ input[a + 1] \in Digit => it = NumberAt(input, a)
               /\ input[a + 1] = "." => it = Item("Dot", input, a, a + 1)
               /\ it.kind \in {"IntegerLiteral", "FloatLiteral"} =>
                      input[a + 1] \in Digit
    /\ done /\ input = TextLiterals =>
           ItemKinds = <<"IntegerLiteral", "FloatLiteral", "StringLiteral",
                         "CharLiteral", "True", "False">>

\* A finished scan of "3." followed by a letter (IntegerLiteral, Dot), of
\* ".3" (Dot, IntegerLiteral) or of "3e3" (no exponent), and the sample text.
C9_Witness ==
    /\ done
    /\ \/ input = <<"3", ".", "e">> /\ ItemKinds = <<"IntegerLiteral", "Dot", "Identifier">>
       \/ input = <<".", "3">> /\ ItemKinds = <<"Dot", "IntegerLiteral">>
       \/ input = <<"3", "e", "3">> /\ ItemKinds = <<"IntegerLiteral", "Identifier">>
       \/ input = TextLiterals /\ Len(Items) = 6

(***************************************************************************)
(* C3, C4, C5: the reserved words, alone, between whitespace, in the       *)
(* keyword line, and followed by identifier characters (SpecWords)         *)
(***************************************************************************)
MaxPad == 1

MaxSuffix == 3

SuffixChars == {"8", "_", "u", "c", "t"}

\* The 16 keywords in the order of the keyword line.
KeywordOrder ==
    <<"Var", "Mut", "Fn", "Const", "Struct", "Enum", "Union", "If", "Else",
      "While", "For", "Loop", "Match", "Mod", "Return", "Panic">>

RECURSIVE JoinWords(_, _)
\* The texts of the kinds ks[i..], separated by one space.
JoinWords(ks, i) ==
    IF i > Len(ks) THEN <<>>
    ELSE IF i = Len(ks) THEN TokenText(ks[i])
    ELSE TokenText(ks[i]) \o <<" ">> \o JoinWords(ks, i + 1)

\* var mut fn const struct enum union if else while for loop match mod return panic
KeywordLine == JoinWords(KeywordOrder, 1)

PadChars == {" ", "\n"}

\* A reserved word with at most MaxPad whitespace code points on each side.
PaddedWords ==
    {pre \o TokenText(k) \o post :
        k \in ReservedKinds,
        pre \in Texts(PadChars, MaxPad),
        post \in Texts(PadChars, MaxPad)}

\* A reserved word directly followed by 1 .. MaxSuffix identifier characters.
SuffixedWords ==
    {TokenText(k) \o suf :
        k \in ReservedKinds,
        suf \in Texts(SuffixChars, MaxSuffix) \ {<<>>}}

InitWords ==
    Start(PaddedWords \cup SuffixedWords \cup {KeywordLine, <<"i", "f", " ", "$">>})

SpecWords == InitWords /\ [][Next]_vars

\* The text of the reserved kind k stands at boundary a of the input, with
\* whitespace or an end of the input on each side.
StandsAlone(k, a) ==
    /\ IsPrefixAt(TokenText(k), input, a)
    /\ a = 0 \/ input[a] \in SkipChar
    /\ a + Len(TokenText(k)) = Len(input)
          \/ input[a + Len(TokenText(k)) + 1] \in SkipChar

\* C3: a reserved word that stands alone or between whitespace is emitted
\* as its own token over exactly its text, and no Identifier is emitted
\* there: once the scan is past it, the item at its place is that token.
C3_ReservedWords ==
    \A k \in ReservedKinds : \A a \in 0..Len(input) :
        StandsAlone(k, a) /\ pos >= a + Len(TokenText(k)) =>
            /\ \E i \in 1..Len(Items) :
                   Items[i] = Item(k, input, a, a + Len(TokenText(k)))
            /\ \A i \in 1..Len(Items) :
                   Items[i].start = Off(input, a) => Items[i].kind = k

\* A finished scan of one reserved word between whitespace that emitted
\* exactly the token of that word.
C3_Witness ==
    /\ done
    /\ \E k \in ReservedKinds :
           /\ StandsAlone(k, 1)
           /\ Len(input) = Len(TokenText(k)) + 2
           /\ ItemKinds = <<k>>

\* C4 (amended): the keyword line yields exactly the 16 keyword tokens of
\* its 16 words, in order, no Identifier and no error.
C4_KeywordLine16 ==
    done /\ input = KeywordLine => ItemKinds = KeywordOrder

\* The scan of the keyword line has finished.
C4_Witness ==
    done /\ input = KeywordLine /\ Len(Items) = Len(KeywordOrder)

\* C4 as claimed: the keyword line yields exactly 15 tokens.
C4_KeywordLine15 ==
    done /\ input = KeywordLine => Len(Items) = 15

\* The input is the reserved word of kind k directly followed by one or
\* more identifier characters and nothing else.
IsSuffixed(k) ==
    /\ IsPrefixAt(TokenText(k), input, 0)
    /\ Len(input) > Len(TokenText(k))
    /\ \A i \in (Len(TokenText(k)) + 1)..Len(input) : input[i] \in IdentChar

\* The input is itself the text of a reserved word.
IsReservedText(w) == \E r \in ReservedKinds : w = TokenText(r)

\* C5 (amended): a reserved word directly followed by identifier characters
\* lexes as exactly one token over the whole run, never as the token of the
\* word followed by a rest; that token is Identifier unless the whole run is
\* itself a reserved word (str followed by uct is Struct).
C5_OneTokenOverRun ==
    \A k \in ReservedKinds :
        done /\ IsSuffixed(k) =>
            /\ Len(Items) = 1
            /\ Items[1].start = 0
            /\ Items[1].end = Off(input, Len(input))
            /\ Items[1].kind = "Identifier" <=> ~IsReservedText(input)

\* A finished scan of a reserved word followed by identifier characters that
\* emitted one Identifier.
C5_Witness ==
    /\ done
    /\ \E k \in ReservedKinds : IsSuffixed(k)
    /\ ItemKinds = <<"Identifier">>

\* C5 as claimed: the one token is always Identifier.
C5_AlwaysIdentifier ==
    \A k \in ReservedKinds :
        done /\ IsSuffixed(k) => ItemKinds = <<"Identifier">>

(***************************************************************************)
(* C6: the two-character operators and their one-character prefixes        *)
(* (SpecOps)                                                               *)
(***************************************************************************)
MaxOps == 3

SigmaOps == {"=", "!", "<", ">", "&", "|", "-", " ", "$"}

InitOps == Start(Texts(SigmaOps, MaxOps))

SpecOps == InitOps /\ [][Next]_vars

\* ==, !=, <=, >=, &&, ||, <<, >>, ->
TwoCharOps ==
    {"Eq", "NotEq", "LtEq", "GtEq", "And", "Or", "Shl", "Shr", "Arrow"}

\* The kind of the #[token] rule whose text is the one code point c.
OneCharKind(c) == CHOOSE k \in TokenKinds : TokenText(k) = <<c>>

\* C6: an item that starts where the two code points of a two-character
\* operator stand together is that operator's token over both of them, never
\* the token of its first code point; and the same two code points with
\* whitespace between them, as the whole input, lex as the two
\* one-character tokens.
C6_TwoCharOperators ==
    /\ \A i \in 1..Len(Items) : \A k \in TwoCharOps :
           LET a == Boundary(Items[i].start)
           IN  IsPrefixAt(TokenText(k), input, a) =>
                   Items[i] = Item(k, input, a, a + 2)
    /\ \A k \in TwoCharOps :
           LET w == TokenText(k)
           IN  /\ done
               /\ Len(input) >= 3
               /\ input[1] = w[1]
               /\ input[Len(input)] = w[2]
               /\ \A j \in 2..(Len(input) - 1) : input[j] \in SkipChar
               => Items = <<Item(OneCharKind(w[1]), input, 0, 1),
                            Item(OneCharKind(w[2]), input, Len(input) - 1, Len(input))>>

\* A finished scan of "<=" that emitted LtEq, or of "< =" that emitted Lt
\* then Assign.
C6_Witness ==
    /\ done
    /\ \/ input = <<"<", "=">> /\ ItemKinds = <<"LtEq">>
       \/ input = <<"<", " ", "=">> /\ ItemKinds = <<"Lt", "Assign">>

(***************************************************************************)
(* C7: multi-line comments (SpecComment)                                   *)
(***************************************************************************)
MaxComment == 6

SigmaComment == {"/", "*", "a"}

\* /* a **/ b */
TextStarredComment ==
    <<"/", "*", " ", "a", " ", "*", "*", "/", " ", "b", " ", "*", "/">>

InitComment ==
    Start(Texts(SigmaComment, MaxComment) \cup {TextStarredComment, <<"$">>})

SpecComment == InitComment /\ [][Next]_vars

\* "*/" stands at boundary b of the input.
ClosesAt(b) == IsPrefixAt(<<"*", "/">>, input, b)

\* C7 as claimed: an item that starts at a "/*" which some later "*/" closes
\* is the MultiLineComment that ends right after the first such "*/".
C7_EndsAtFirstClose ==
    \A i \in 1..Len(Items) :
        LET a == Boundary(Items[i].start)
        IN  /\ IsPrefixAt(<<"/", "*">>, input, a)
            /\ \E b \in (a + 2)..Len(input) : ClosesAt(b)
            => LET b == CHOOSE c \in (a + 2)..Len(input) :
                          ClosesAt(c) /\ \A e \in (a + 2)..(c - 1) : ~ClosesAt(e)
               IN  Items[i] = Item("MultiLineComment", input, a, b + 2)

(***************************************************************************)
(* C10: string literals (SpecQuote)                                        *)
(***************************************************************************)
MaxQuote == 5

SigmaQuote == {"\"", "\\", "\n", "a"}

InitQuote == Start(Texts(SigmaQuote, MaxQuote))

SpecQuote == InitQuote /\ [][Next]_vars

\* A double quote stands after boundary b of the input.
QuoteAfter(b) == b < Len(input) /\ input[b + 1] = "\""

\* C10: an item that starts at a double quote is the StringLiteral that ends
\* at the very next double quote, whatever stands between them (a backslash,
\* a newline), and is an error item when no double quote follows; every
\* StringLiteral starts at a double quote.
C10_StringLiteral ==
    \A i \in 1..Len(Items) :
        LET a == Boundary(Items[i].start)
        IN  /\ Items[i].kind = "StringLiteral" => QuoteAfter(a)
            /\ QuoteAfter(a) =>
                   IF \E b \in (a + 1)..Len(input) : QuoteAfter(b)
                   THEN LET b == CHOOSE c \in (a + 1)..Len(input) :
                                     QuoteAfter(c) /\ \A e \in (a + 1)..(c - 1) : ~QuoteAfter(e)
                        IN  Items[i] = Item("StringLiteral", input, a, b + 1)
                   ELSE Items[i].kind = "Error"

\* A finished scan that emitted a StringLiteral whose last code point before
\* the closing quote is a backslash and which holds a newline, and then an
\* error item at a quote that nothing closes.
C10_Witness ==
    /\ done
    /\ input = <<"\"", "\n", "\\", "\"", "\"">>
    /\ Len(Items) = 2
    /\ Items[1] = Item("StringLiteral", input, 0, 4)
    /\ Items[2] = Item("Error", input, 4, 5)

(***************************************************************************)
(* C11: character literals (SpecChar)                                      *)
(***************************************************************************)
MaxChar == 4

SigmaChar == {"'", "a", "\\", "n", "U+00E9"}

InitChar == Start(Texts(SigmaChar, MaxChar))

SpecChar == InitChar /\ [][Next]_vars

\* A single quote stands after boundary b of the input.
TickAfter(b) == b < Len(input) /\ input[b + 1] = "'"

\* C11: a CharLiteral covers exactly three code points, a single quote, one
\* code point that is not a single quote, a single quote; and an item that
\* starts at a single quote is that CharLiteral when the code point after
\* the quote is not a quote and a quote follows it directly, and an error
\* item otherwise ('' and 'ab and the two code points \n between quotes
\* give no CharLiteral).
C11_CharLiteral ==
    \A i \in 1..Len(Items) :
        LET a == Boundary(Items[i].start)
            b == Boundary(Items[i].end)
        IN  /\ Items[i].kind = "CharLiteral" =>
                   /\ b = a + 3
                   /\ TickAfter(a)
                   /\ ~TickAfter(a + 1)
                   /\ TickAfter(a + 2)
            /\ TickAfter(a) =>
                   IF a + 3 <= Len(input) /\ ~TickAfter(a + 1) /\ TickAfter(a + 2)
                   THEN Items[i] = Item("CharLiteral", input, a, a + 3)
                   ELSE Items[i].kind = "Error"

\* A finished scan of '\n' written with a backslash and an n, which emitted no
\* CharLiteral and began with an error item at the first quote.
C11_Witness ==
    /\ done
    /\ input = <<"'", "\\", "n", "'">>
    /\ Items[1].kind = "Error"
    /\ \A i \in 1..Len(Items) : Items[i].kind # "CharLiteral"

\* A finished scan of a quoted two-byte code point, one CharLiteral of four bytes.
C11_WitnessLiteral ==
    /\ done
    /\ input = <<"'", "U+00E9", "'">>
    /\ Items = <<[kind |-> "CharLiteral", start |-> 0, end |-> 4]>>

(***************************************************************************)
(* C12: comments are tokens (SpecLine)                                     *)
(***************************************************************************)
MaxLine == 5

SigmaLine == {"/", "*", "a", "\n"}

\* "// line" newline "/* a" newline "b */"
TextComments ==
    <<"/", "/", " ", "l", "i", "n", "e", "\n",
      "/", "*", " ", "a", "\n", "b", " ", "*", "/">>

InitLine == Start(Texts(SigmaLine, MaxLine) \cup {TextComments, <<"$">>})

SpecLine == InitLine /\ [][Next]_vars

RECURSIVE LineEnd(_, _)
\* The boundary before the first newline of s at or after boundary p, or the
\* end of s.
LineEnd(s, p) ==
    IF p < Len(s) /\ s[p + 1] # "\n" THEN LineEnd(s, p + 1) ELSE p

\* C12: an item that starts where "//" stands is the SingleLineComment up to,
\* and not including, the next newline or the end of the input, and every
\* SingleLineComment starts at "//"; a comment is returned as an item: the
\* sample text yields one SingleLineComment, then one MultiLineComment, and
\* nothing else.
C12_Comments ==
    /\ \A i \in 1..Len(Items) :
           LET a == Boundary(Items[i].start)
           IN  /\ IsPrefixAt(<<"/", "/">>, input, a) =>
                      Items[i] = Item("SingleLineComment", input, a, LineEnd(input, a))
               /\ Items[i].kind = "SingleLineComment" =>
                      IsPrefixAt(<<"/", "/">>, input, a)
    /\ done /\ input = TextComments =>
           Items = <<Item("SingleLineComment", input, 0, 7),
                     Item("MultiLineComment", input, 8, 17)>>

\* The finished scan of the sample text.
C12_Witness ==
    /\ done
    /\ input = TextComments
    /\ ItemKinds = <<"SingleLineComment", "MultiLineComment">>

(***************************************************************************)
(* C13: attributes and the macro marker (SpecAttr)                         *)
(***************************************************************************)
MaxAttr == 4

SigmaAttr == {"#", "[", "]", "@", "a"}

\* #[a[b]]
TextNestedAttribute == <<"#", "[", "a", "[", "b", "]", "]">>

\* #[inline] @macro_call
TextAttributeMacro ==
    <<"#", "[", "i", "n", "l", "i", "n", "e", "]", " ",
      "@", "m", "a", "c", "r", "o", "_", "c", "a", "l", "l">>

InitAttr ==
    Start(Texts(SigmaAttr, MaxAttr) \cup {TextNestedAttribute, TextAttributeMacro})

SpecAttr == InitAttr /\ [][Next]_vars

\* ']' stands after boundary b of the input.
BracketAfter(b) == b < Len(input) /\ input[b + 1] = "]"

\* C13: an item that starts at '#' is the Attribute from "#[" to the first
\* ']' after it, when "[" follows the '#' and a ']' follows that, and an
\* error item otherwise; every Attribute starts at "#["; an item that starts
\* at '@' is MacroInvoke over the '@' alone; "#[a[b]]" is the Attribute
\* "#[a[b]" then RBracket, and "#[inline] @macro_call" is Attribute,
\* MacroInvoke, Identifier.
C13_Attributes ==
    /\ \A i \in 1..Len(Items) :
           LET a == Boundary(Items[i].start)
           IN  /\ Items[i].kind = "Attribute" => IsPrefixAt(<<"#", "[">>, input, a)
               /\ input[a + 1] = "#" =>
                      IF /\ IsPrefixAt(<<"#", "[">>, input, a)
                         /\ \E b \in (a + 2)..Len(input) : BracketAfter(b)
                      THEN LET b == CHOOSE c \in (a + 2)..Len(input) :
                                        /\ BracketAfter(c)
                                        /\ \A d \in (a + 2)..(c - 1) : ~BracketAfter(d)
                           IN  Items[i] = Item("Attribute", input, a, b + 1)
                      ELSE Items[i].kind = "Error"
               /\ input[a + 1] = "@" => Items[i] = Item("MacroInvoke", input, a, a + 1)
    /\ done /\ input = TextNestedAttribute =>
           Items = <<Item("Attribute", input, 0, 6), Item("RBracket", input, 6, 7)>>
    /\ done /\ input = TextAttributeMacro =>
           ItemKinds = <<"Attribute", "MacroInvoke", "Identifier">>

\* The finished scan of "#[a[b]]".
C13_Witness ==
    /\ done
    /\ input = TextNestedAttribute
    /\ ItemKinds = <<"Attribute", "RBracket">>

(***************************************************************************)
(* C14: what is skipped (SpecSpace)                                        *)
(***************************************************************************)
MaxSpace == 4

SigmaSpace == {" ", "\t", "\n", "\f", "\r", "a", "\""}

InitSpace == Start(Texts(SigmaSpace, MaxSpace))

SpecSpace == InitSpace /\ [][Next]_vars

\* Space, tab, newline and form-feed.
Whitespace == {" ", "\t", "\n", "\f"}

\* The code points of the input that the item `it` covers.
CodePoints(it) == (Boundary(it.start) + 1)..Boundary(it.end)

\* Code point i of the input lies in a skipped run.
Skipped(i) ==
    \E j \in 1..Len(trace) : trace[j].kind = "Skip" /\ i \in CodePoints(trace[j])

\* Code point i of the input lies in a token or in an error item.
Emitted(i) ==
    \E j \in 1..Len(Items) : i \in CodePoints(Items[j])

\* C14 as stated: a code point the scan has passed is skipped if and only if
\* it is a space, a tab, a newline or a form-feed.
C14_SkippedIffWhitespace ==
    \A i \in 1..pos : Skipped(i) <=> input[i] \in Whitespace

\* C14: a skipped code point is a space, a tab, a newline or a form-feed; no
\* token and no error item starts with one of the four, so a run of them is
\* never an item; every other code point the scan has passed, the carriage
\* return included, lies in a token or in an error item; and one of the four
\* that is not skipped lies inside an item that starts before it.
C14_Whitespace ==
    /\ \A i \in 1..pos :
           /\ Skipped(i) => input[i] \in Whitespace
           /\ input[i] \notin Whitespace => Emitted(i)
           /\ Skipped(i) \/ Emitted(i)
    /\ \A j \in 1..Len(Items) :
           input[Boundary(Items[j].start) + 1] \notin Whitespace

\* A finished scan with a skipped blank, a blank inside a string literal, and
\* a carriage return in an error item.
C14_Witness ==
    /\ done
    /\ input = <<" ", "\"", " ", "\"">> \/ input = <<"a", " ", "\r", "\n">>
    /\ \E i \in 1..pos : input[i] \in Whitespace /\ Skipped(i)
    /\ \/ \E i \in 1..pos : input[i] \in Whitespace /\ Emitted(i)
       \/ \E j \in 1..Len(Items) :
              Items[j].kind = "Error" /\ input[Boundary(Items[j].start) + 1] = "\r"

(***************************************************************************)
(* C15: progress of a scan (Spec)                                          *)
(***************************************************************************)
\* A pull reports the end of the input or moves the cursor forward by at
\* least one byte.
Advances == done' \/ Off(input, pos') > Off(input, pos)

\* Once the end of the input has been reported, a pull reports it again and
\* changes nothing.
StaysAtEnd == done => done' /\ pos' = pos /\ trace' = trace

\* C15: every pull reports the end of the input or advances the cursor by at
\* least one byte, also when it returns an error; the items returned never
\* outnumber the bytes consumed, so at most len(input) pulls return an item;
\* and a lexer that has reported the end stands at the end of the input and
\* reports it again on every later pull.
C15_Progress ==
    /\ [](/\ Len(Items) <= Off(input, pos)
          /\ pos <= Len(input)
          /\ done => pos = Len(input) /\ ENABLED PullEnd /\ ~ENABLED (PullToken \/ PullError))
    /\ [][Advances /\ StaysAtEnd]_vars

\* A finished scan that took as many pulls as the input has bytes, one of
\* them returning an error.
C15_Witness ==
    /\ done
    /\ Len(input) >= 3
    /\ Len(Items) = Off(input, Len(input))
    /\ \E j \in 1..Len(Items) : Items[j].kind = "Error"

(***************************************************************************)
(* C16: two lexers over one text (SpecTwo)                                 *)
(***************************************************************************)
MaxTwo == 3

SigmaTwo == {"a", " ", "$", "\"", "="}

InitTwo == Start(Texts(SigmaTwo, MaxTwo))

\* A second lexer that reads the cursor of the first one.
CursorShared == pos

\* The cursor of the second lexer: each Token::lexer(source) owns its own.
Cursor2 == pos2

Pull2Token ==
    /\ TokenStep(Cursor2, trace2, pos2', trace2')
    /\ UNCHANGED <<input, errEnd, pos, trace, done, done2, ast>>

Pull2Error ==
    /\ ErrorStep(Cursor2, trace2, pos2', trace2')
    /\ UNCHANGED <<input, errEnd, pos, trace, done, done2, ast>>

Pull2End ==
    /\ EndStep(Cursor2, trace2, pos2', trace2')
    /\ done2' = TRUE
    /\ UNCHANGED <<input, errEnd, pos, trace, done, ast>>

\* Token::lexer(source) once more: the second scan starts again at byte 0.
Restart2 ==
    /\ pos2' = 0
    /\ trace2' = <<>>
    /\ done2' = FALSE
    /\ UNCHANGED <<input, errEnd, pos, trace, done, ast>>

NextTwo == Next \/ Pull2Token \/ Pull2Error \/ Pull2End \/ Restart2

SpecTwo == InitTwo /\ [][NextTwo]_vars

\* The tokens and error items the second lexer has returned.
Items2 == SelectSeq(trace2, LAMBDA it : it.kind # "Skip")

SpanNew(start, end, line, column) ==
    [start |-> start, end |-> end, line |-> line, column |-> column]

\* Span::dummy()
SpanDummy == [start |-> 0, end |-> 0, line |-> 0, column |-> 0]

\* Identifier::new(name, span)
IdentifierNew(name, span) == [name |-> name, span |-> span]

\* #[derive(PartialEq)] on Identifier and on Span: field by field.
IdentifierEq(a, b) ==
    /\ a.name = b.name
    /\ a.span.start = b.span.start
    /\ a.span.end = b.span.end
    /\ a.span.line = b.span.line
    /\ a.span.column = b.span.column

\* The variants of Type without a payload, each with the text that
\* Display::fmt writes for it.
PrimitiveText ==
    [ I8 |-> "i8", I16 |-> "i16", I32 |-> "i32", I64 |-> "i64", I128 |-> "i128",
      U8 |-> "u8", U16 |-> "u16", U32 |-> "u32", U64 |-> "u64", U128 |-> "u128",
      F32 |-> "f32", F64 |-> "f64", Bool |-> "bool", Char |-> "char",
      Str |-> "str", Unit |-> "()", Never |-> "!" ]

Prim(tag) == [tag |-> tag]

I32 == Prim("I32")

F64 == Prim("F64")

Bool == Prim("Bool")

Unit == Prim("Unit")

Array(ty, size) == [tag |-> "Array", ty |-> ty, size |-> size]

Slice(ty) == [tag |-> "Slice", ty |-> ty]

Pointer(ty, mutability) == [tag |-> "Pointer", ty |-> ty, mutability |-> mutability]

Reference(ty, mutability) == [tag |-> "Reference", ty |-> ty, mutability |-> mutability]

Tuple(types) == [tag |-> "Tuple", types |-> types]

Function(params, return_ty) == [tag |-> "Function", params |-> params, return_ty |-> return_ty]

Named(segments) == [tag |-> "Named", path |-> [segments |-> segments, span |-> SpanDummy]]

Generic(base, args) == [tag |-> "Generic", base |-> base, args |-> args]

Mutability == {"Mutable", "Immutable"}

TypePathSegment(name, generic_args) ==
    [ident |-> IdentifierNew(name, SpanDummy), generic_args |-> generic_args, span |-> SpanDummy]

\* Expression::Literal(Literal::Integer(n, None))
IntegerExpression(n) == [tag |-> "Literal", literal |-> [tag |-> "Integer", n |-> n, ty |-> None]]

\* {:?} of an integer literal expression, as derive(Debug) writes it.
DebugExpression(e) == "Literal(Integer(" \o ToString(e.literal.n) \o ", None))"

\* A list separator without the blank.
ListSeparatorTight == ","

\* write!(f, ", ") between the elements of a list.
ListSeparator == ", "

RECURSIVE Display(_), DisplayList(_), DisplaySegments(_)

\* The elements of a list, each written by Display::fmt, with the separator
\* before every element but the first.
DisplayList(types) ==
    IF types = <<>> THEN ""
    ELSE IF Len(types) = 1 THEN Display(types[1])
    ELSE Display(types[1]) \o ListSeparator \o DisplayList(Tail(types))

\* The segments of a path, "::" before every segment but the first, each the
\* name and, if it has generic arguments, the list of them between '<' and '>'.
DisplaySegments(segments) ==
    IF segments = <<>> THEN ""
    ELSE LET seg == segments[1]
             text == seg.ident.name \o
                     (IF seg.generic_args = None THEN ""
                      ELSE "<" \o DisplayList(seg.generic_args[1]) \o ">")
         IN  IF Len(segments) = 1 THEN text
             ELSE text \o "::" \o DisplaySegments(Tail(segments))

\* impl fmt::Display for Type
Display(t) ==
    CASE t.tag \in DOMAIN PrimitiveText -> PrimitiveText[t.tag]
      [] t.tag = "Array" ->
             "[" \o Display(t.ty) \o
             (IF t.size = None THEN "" ELSE "; " \o DebugExpression(t.size[1])) \o "]"
      [] t.tag = "Slice" -> "[" \o Display(t.ty) \o "]"
      [] t.tag = "Pointer" ->
             (IF t.mutability = "Mutable" THEN "*mut " ELSE "*const ") \o Display(t.ty)
      [] t.tag = "Reference" ->
             (IF t.mutability = "Mutable" THEN "&mut " ELSE "&") \o Display(t.ty)
      [] t.tag = "Tuple" -> "(" \o DisplayList(t.types) \o ")"
      [] t.tag = "Function" ->
             "fn(" \o DisplayList(t.params) \o ") -> " \o Display(t.return_ty)
      [] t.tag = "Named" -> DisplaySegments(t.path.segments)
      [] t.tag = "Generic" -> Display(t.base) \o "<" \o DisplayList(t.args) \o ">"

(***************************************************************************)
(* C17, C18: the text of a Type (SpecType)                                 *)
(***************************************************************************)
MaxArgs == 2

Names == {"std", "Vec"}

\* The types used as elements, arguments, parameters and return types.
Elems == {I32, F64, Bool}

ArgLists == Texts(Elems, MaxArgs)

ArraySizes == {None} \cup {Some(IntegerExpression(n)) : n \in {0, 3}}

\* The types with one boxed type in them, over the types of E.
Boxed(E) ==
    {Array(e, s) : e \in E, s \in ArraySizes}
        \cup {Slice(e) : e \in E}
        \cup {Pointer(e, m) : e \in E, m \in Mutability}
        \cup {Reference(e, m) : e \in E, m \in Mutability}

PlainSegments == {TypePathSegment(n, None) : n \in Names}

Segments == PlainSegments \cup {TypePathSegment(n, Some(a)) : n \in Names, a \in ArgLists}

Paths == {<<s>> : s \in Segments} \cup {<<s, u>> : s \in PlainSegments, u \in Segments}

PlainPaths == {<<s>> : s \in PlainSegments} \cup {<<s, u>> : s, u \in PlainSegments}

Types ==
    {Prim(k) : k \in DOMAIN PrimitiveText}
        \cup Boxed(Elems)
        \cup Boxed(Boxed(Elems))
        \cup {Tuple(a) : a \in ArgLists}
        \cup {Function(a, e) : a \in ArgLists, e \in Elems}
        \cup {Named(p) : p \in Paths}
        \cup {Generic(b, a) : b \in Elems \cup {Named(p) : p \in PlainPaths}, a \in ArgLists}

InitType == Start({<<>>})

\* A Type value is built.
Construct(t) ==
    /\ value' = Some(t)
    /\ result' = None
    /\ UNCHANGED <<lexer, lexer2>>

\* to_string() on the Type value.
TypeToString ==
    /\ value # None
    /\ result' = Some(Display(value[1]))
    /\ UNCHANGED <<value, lexer, lexer2>>

NextType == (\E t \in Types : Construct(t)) \/ TypeToString

SpecType == InitType /\ [][NextType]_vars

\* Once the type t has been rendered, the text is `text`.
Renders(t, text) == result # None /\ value = Some(t) => result = Some(text)

\* C17: every Type value has a text, and I32 is "i32", Array(I32, None) is
\* "[i32]", Pointer(I32, Mutable) is "*mut i32", Reference(I32, Immutable) is
\* "&i32", Tuple([I32, F64]) is "(i32, f64)", Function([I32], Bool) is
\* "fn(i32) -> bool", and a Named path is its segment names joined by "::",
\* each followed by its generic arguments as "<arg, arg>" if it has some.
C17_TypeDisplay ==
    /\ result # None => result[1] \in STRING
    /\ Renders(I32, "i32")
    /\ Renders(Array(I32, None), "[i32]")
    /\ Renders(Pointer(I32, "Mutable"), "*mut i32")
    /\ Renders(Reference(I32, "Immutable"), "&i32")
    /\ Renders(Tuple(<<I32, F64>>), "(i32, f64)")
    /\ Renders(Function(<<I32>>, Bool), "fn(i32) -> bool")
    /\ \A n, m \in Names :
           /\ Renders(Named(<<TypePathSegment(n, None)>>), n)
           /\ Renders(Named(<<TypePathSegment(n, None), TypePathSegment(m, None)>>),
                      n \o "::" \o m)
           /\ Renders(Named(<<TypePathSegment(n, Some(<<I32>>))>>), n \o "<i32>")
           /\ Renders(Named(<<TypePathSegment(n, None),
                              TypePathSegment(m, Some(<<I32, F64>>))>>),
                      n \o "::" \o m \o "<i32, f64>")

\* Vec<i32, f64> in std has been rendered.
C17_Witness ==
    /\ value = Some(Named(<<TypePathSegment("std", None),
                           TypePathSegment("Vec", Some(<<I32, F64>>))>>))
    /\ result = Some("std::Vec<i32, f64>")

\* C18 as stated: no other Type value has the text of the rendered one.
C18_DisplayInjective ==
    result # None => \A t \in Types : Display(t) = result[1] => t = value[1]

(***************************************************************************)
(* C19: equality of identifiers (SpecIdent)                                *)
(***************************************************************************)
MaxOffset == 3

IdentNames == {"foo", "bar"}

\* The identifiers with a span on line 1, column 1.
Identifiers ==
    {IdentifierNew(n, SpanNew(s, e, 1, 1)) : n \in IdentNames, s, e \in 0..MaxOffset}

InitIdent == Start({<<>>})

\* Two identifiers are built.
NewIdentifiers(a, b) ==
    /\ value' = Some(<<a, b>>)
    /\ result' = None
    /\ UNCHANGED <<lexer, lexer2>>

\* a == b on the two identifiers.
CompareIdentifiers ==
    /\ value # None
    /\ result' = Some(IdentifierEq(value[1][1], value[1][2]))
    /\ UNCHANGED <<value, lexer, lexer2>>

NextIdent == (\E a, b \in Identifiers : NewIdentifiers(a, b)) \/ CompareIdentifiers

SpecIdent == InitIdent /\ [][NextIdent]_vars

\* C19 as stated: two identifiers compare equal if and only if their names
\* are equal, whatever their spans.
C19_EqualIffSameName ==
    result # None => (result[1] <=> value[1][1].name = value[1][2].name)

(***************************************************************************)
(* C20: the order of a span's ends (SpecSpan)                              *)
(***************************************************************************)
InitSpan == Start({<<>>})

\* Span::new(start, end, line, column), or the struct written out.
NewSpan(start, end, line, column) ==
    /\ value' = Some(SpanNew(start, end, line, column))
    /\ UNCHANGED <<result, lexer, lexer2>>

\* Span::dummy()
DummySpan ==
    /\ value' = Some(SpanDummy)
    /\ UNCHANGED <<result, lexer, lexer2>>

NextSpan ==
    \/ \E start, end, line, column \in 0..MaxOffset : NewSpan(start, end, line, column)
    \/ DummySpan

SpecSpan == InitSpan /\ [][NextSpan]_vars

\* C20 as stated: a span that has been built has start <= end.
C20_StartBeforeEnd ==
    value # None => value[1].start <= value[1].end

(***************************************************************************)
(* C22: the classification of a Type (SpecClass)                           *)
(***************************************************************************)
\* Type::is_primitive
IsPrimitive(t) ==
    t.tag \in {"I8", "I16", "I32", "I64", "I128", "U8", "U16", "U32", "U64", "U128",
               "F32", "F64", "Bool", "Char", "Str", "Unit", "Never"}

\* A numeric test that also takes Bool.
IsNumericWithBool(t) ==
    t.tag \in {"I8", "I16", "I32", "I64", "I128", "U8", "U16", "U32", "U64", "U128",
               "F32", "F64", "Bool"}

\* Type::is_numeric
IsNumeric(t) ==
    t.tag \in {"I8", "I16", "I32", "I64", "I128", "U8", "U16", "U32", "U64", "U128",
               "F32", "F64"}

\* Type::is_integer
IsInteger(t) ==
    t.tag \in {"I8", "I16", "I32", "I64", "I128", "U8", "U16", "U32", "U64", "U128"}

\* Type::is_float
IsFloat(t) == t.tag \in {"F32", "F64"}

\* Type::is_signed
IsSigned(t) == t.tag \in {"I8", "I16", "I32", "I64", "I128", "F32", "F64"}

InitClass == Start({<<>>})

\* The five predicates are called on the Type value.
Classify ==
    /\ value # None
    /\ result' = Some([is_primitive |-> IsPrimitive(value[1]),
                       is_numeric   |-> IsNumeric(value[1]),
                       is_integer   |-> IsInteger(value[1]),
                       is_float     |-> IsFloat(value[1]),
                       is_signed    |-> IsSigned(value[1])])
    /\ UNCHANGED <<value, lexer, lexer2>>

NextClass == (\E t \in Types : Construct(t)) \/ Classify

SpecClass == InitClass /\ [][NextClass]_vars

\* The variants of Type that carry other types.
CompositeTags ==
    {"Array", "Slice", "Pointer", "Reference", "Tuple", "Function", "Named", "Generic"}

\* C22: for every Type value, is_numeric holds exactly when is_integer or
\* is_float does; is_integer and is_float never both hold; is_numeric implies
\* is_primitive; is_signed implies is_numeric; and a composite value is not
\* primitive, whatever types it is made of.
C22_Classification ==
    result # None =>
        LET r == result[1]
        IN  /\ r.is_numeric <=> (r.is_integer \/ r.is_float)
            /\ ~(r.is_integer /\ r.is_float)
            /\ r.is_numeric => r.is_primitive
            /\ r.is_signed => r.is_numeric
            /\ value[1].tag \in CompositeTags => ~r.is_primitive

\* A pointer to i32 has been classified: not primitive, not numeric.
C22_Witness ==
    /\ value = Some(Pointer(I32, "Mutable"))
    /\ result # None
    /\ ~result[1].is_primitive
    /\ ~result[1].is_numeric

\* Bool has been classified: primitive, neither numeric nor signed.
C22_WitnessBool ==
    /\ value = Some(Bool)
    /\ result # None
    /\ result[1].is_primitive
    /\ ~result[1].is_numeric
    /\ ~result[1].is_signed

====
